---- MODULE Spec2Model ----
(***************************************************************************)
(* Lead generation scripts: provider search clients (Apollo, Hunter),      *)
(* record normalisation, the keyword query classifier, the aggregator      *)
(* search_by_natural_language, the Clado enrichment loop and the           *)
(* interactive session of main().                                          *)
(*                                                                         *)
(* Python values: a str is a TLA+ string, None is the marker None, a key   *)
(* that a JSON object does not hold is the marker Absent.                  *)
(***************************************************************************)
EXTENDS Naturals, Sequences, FiniteSets, TLC

VARIABLES
    apollo_api_key,     \* LeadGenerationSystem.apollo_api_key / APOLLO_API_KEY ("" = unset)
    hunter_api_key,     \* LeadGenerationSystem.hunter_api_key / HUNTER_API_KEY ("" = unset)
    clado_api_key,      \* LeadGenerationSystem.clado_api_key ("" = unset)
    pc,                 \* position of the running call
    op,                 \* the function the caller invoked
    query,              \* search_by_natural_language: query (a sequence of characters)
    criteria,           \* search_by_natural_language: criteria
    people,             \* the list of Person objects in hand (mutated in place by enrichment)
    dom,                \* search_by_natural_language: index of the next faang_domains entry
    people0,            \* the field values of `people` when enrich_with_clado was entered
    enriched_people,    \* enrich_with_clado: enriched_people
    idx,                \* enrich_with_clado: index of the next record of the for loop
    trace,              \* HTTP requests sent and time.sleep calls, in program order
    received,           \* per provider call of the query, the records it contributed
    args,               \* the arguments of a directly called provider client
    reply,              \* the response a directly called provider client received
    result,             \* what the call returned or raised
    main_pc,            \* main(): position ("none" when main is not running)
    line,               \* main(): what input("Your search: ") last returned
    prompts,            \* main(): how many times the search prompt was answered
    printed             \* main(): what it printed for the last query it ran

vars == <<apollo_api_key, hunter_api_key, clado_api_key, pc, op, query, criteria,
          people, dom, people0, enriched_people, idx, trace, received, args, reply, result,
          main_pc, line, prompts, printed>>

keyVars == <<apollo_api_key, hunter_api_key, clado_api_key>>
searchVars == <<query, criteria, dom, received>>
enrichVars == <<people0, enriched_people, idx>>
callVars == <<args, reply>>
mainVars == <<main_pc, line, prompts, printed>>

(***************************************************************************)
(* Bounds of the model.                                                    *)
(***************************************************************************)
MaxPeople == 2          \* longest batch handed directly to enrich_with_clado
MaxContacts == 2        \* longest `contacts` list in one Clado response
MaxItems == 2           \* most items in the response a directly called client receives
MaxResults == 2         \* most records the providers return to one query (SpecSearch)
MaxClassifyResults == 1 \* most records the providers return to one query (SpecClassify)
MaxWords == 2           \* most words in a query (SpecClassify)
MaxPrompts == 2         \* most answers to the search prompt in one session (SpecMain)
MaxSessionResults == 1  \* most records the providers return to one query (SpecMain)

(***************************************************************************)
(* Python values.                                                          *)
(***************************************************************************)
None == "<None>"
Absent == "<absent>"

\* Python truthiness of a str-or-None value: `not v`.
Falsy(v) == v = "" \/ v = None

\* dict.get(k, default): the default only when the key is missing.
Get(d, k, default) == IF k \in DOMAIN d THEN d[k] ELSE default

EmptyDict == [k \in {} |-> ""]

\* What a call gave back: a returned list, a returned None or JSON body, or
\* the exception that left it.
Returned(v) == [raised |-> FALSE, exc |-> "", ret |-> "list", value |-> v]
ReturnedRaw(kind) == [raised |-> FALSE, exc |-> "", ret |-> kind, value |-> <<>>]
Raised(e) == [raised |-> TRUE, exc |-> e, ret |-> "", value |-> <<>>]
NoResult == [raised |-> FALSE, exc |-> "", ret |-> "", value |-> <<>>]
NoReply == [kind |-> "none"]

(***************************************************************************)
(* Person (main.py, dataclass).                                            *)
(***************************************************************************)
Person(name, email, phone, linkedin_url, job_title, company, location) ==
    [name |-> name, email |-> email, phone |-> phone, linkedin_url |-> linkedin_url,
     job_title |-> job_title, company |-> company, location |-> location]

\* The records a caller may hand to enrich_with_clado.
EnrichPersons ==
    { Person(n, e, p, l, "jt", "co", "loc") :
        n \in {"a", "b"}, e \in {"", "e0"}, p \in {"", "p0"}, l \in {"", "l0"} }

RECURSIVE SeqsUpTo(_, _)
SeqsUpTo(S, n) ==
    IF n = 0 THEN { <<>> }
    ELSE LET shorter == SeqsUpTo(S, n - 1)
         IN  shorter \cup { Append(s, x) : s \in { t \in shorter : Len(t) = n - 1 }, x \in S }

(***************************************************************************)
(* The Clado provider: what one GET of /api/enrich/contacts can produce.   *)
(***************************************************************************)
Contacts ==
    { [type |-> Absent, value |-> "x"] }
    \cup { [type |-> "email", value |-> "e9"], [type |-> "phone", value |-> "p9"] }

CladoBodies ==
    {"bad_json", "no_data", "empty_data", "null_data", "no_contacts", "null_contacts"}

CladoResponses ==
    { [kind |-> "network_error", status |-> 0, body |-> "none", contacts |-> <<>>] }
    \cup { [kind |-> "response", status |-> s, body |-> "none", contacts |-> <<>>] :
             s \in {404} }
    \cup { [kind |-> "response", status |-> 200, body |-> b, contacts |-> <<>>] :
             b \in CladoBodies }
    \cup { [kind |-> "response", status |-> 200, body |-> "contacts", contacts |-> cs] :
             cs \in SeqsUpTo(Contacts, MaxContacts) }

\* The Clado answers in a run of the aggregator: a failed request, an error
\* status, a body without data, contacts for both fields, contacts of which
\* the second has no type, and an email contact without a value.
SearchCladoReplies ==
    { [kind |-> "network_error", status |-> 0, body |-> "none", contacts |-> <<>>],
      [kind |-> "response", status |-> 404, body |-> "none", contacts |-> <<>>],
      [kind |-> "response", status |-> 200, body |-> "empty_data", contacts |-> <<>>],
      [kind |-> "response", status |-> 200, body |-> "contacts",
       contacts |-> << [type |-> "email", value |-> "e9"],
                       [type |-> "phone", value |-> "p9"] >>],
      [kind |-> "response", status |-> 200, body |-> "contacts",
       contacts |-> << [type |-> "phone", value |-> "p9"],
                       [type |-> Absent, value |-> "x"] >>],
      [kind |-> "response", status |-> 200, body |-> "contacts",
       contacts |-> << [type |-> "email", value |-> Absent] >>] }

(***************************************************************************)
(* enrich_with_clado, the body of the for loop.                            *)
(***************************************************************************)
\* Lines 188-191 for one contact with the email guard dropped.
UpdateContactOverwrite(person, contact) ==
    IF contact.type = Absent THEN [person |-> person, raised |-> TRUE]
    ELSE IF contact.type = "email" THEN
        IF contact.value = Absent THEN [person |-> person, raised |-> TRUE]
        ELSE [person |-> [person EXCEPT !.email = contact.value], raised |-> FALSE]
    ELSE IF contact.type = "phone" /\ Falsy(person.phone) THEN
        IF contact.value = Absent THEN [person |-> person, raised |-> TRUE]
        ELSE [person |-> [person EXCEPT !.phone = contact.value], raised |-> FALSE]
    ELSE [person |-> person, raised |-> FALSE]

\* Lines 188-191 for one contact: contact['type'] and contact['value'] raise
\* KeyError when the key is missing; `and` evaluates its right side only when
\* the left side is true.
UpdateContact(person, contact) ==
    IF contact.type = Absent THEN [person |-> person, raised |-> TRUE]
    ELSE IF contact.type = "email" /\ Falsy(person.email) THEN
        IF contact.value = Absent THEN [person |-> person, raised |-> TRUE]
        ELSE [person |-> [person EXCEPT !.email = contact.value], raised |-> FALSE]
    ELSE IF contact.type = "phone" /\ Falsy(person.phone) THEN
        IF contact.value = Absent THEN [person |-> person, raised |-> TRUE]
        ELSE [person |-> [person EXCEPT !.phone = contact.value], raised |-> FALSE]
    ELSE [person |-> person, raised |-> FALSE]

\* Lines 187-191: the loop over contacts; the Person object is mutated in
\* place, so what was assigned before an exception stays assigned.
RECURSIVE UpdateContacts(_, _)
UpdateContacts(person, contacts) ==
    IF contacts = <<>> THEN [person |-> person, raised |-> FALSE]
    ELSE LET r == UpdateContact(person, Head(contacts))
         IN  IF r.raised THEN r ELSE UpdateContacts(r.person, Tail(contacts))

\* Lines 183-184: response.json() and data.get('data', [{}])[0].get('contacts', []).
CladoContacts(resp) ==
    IF resp.body = "bad_json" THEN [raised |-> TRUE, contacts |-> <<>>]        \* json() raises
    ELSE IF resp.body = "no_data" THEN [raised |-> FALSE, contacts |-> <<>>]   \* [{}][0].get
    ELSE IF resp.body = "empty_data" THEN [raised |-> TRUE, contacts |-> <<>>] \* IndexError
    ELSE IF resp.body = "null_data" THEN [raised |-> TRUE, contacts |-> <<>>]  \* TypeError
    ELSE IF resp.body = "no_contacts" THEN [raised |-> FALSE, contacts |-> <<>>]
    ELSE IF resp.body = "null_contacts" THEN [raised |-> TRUE, contacts |-> <<>>] \* for over None
    ELSE [raised |-> FALSE, contacts |-> resp.contacts]

\* Lines 168-174 with the two tests exchanged: the email is preferred.
LookupParamEmailFirst(person) ==
    IF ~Falsy(person.email) THEN "email"
    ELSE IF ~Falsy(person.linkedin_url) THEN "linkedin_url"
    ELSE ""

\* Lines 168-174: the lookup key, "" when the record is passed through.
LookupParam(person) ==
    IF ~Falsy(person.linkedin_url) THEN "linkedin_url"
    ELSE IF ~Falsy(person.email) THEN "email"
    ELSE ""

\* Lines 176-180: the GET sent for record `rec` of the batch.
CladoRequest(key, rec, person) ==
    [ev |-> "request", to |-> "clado", auth |-> key, rec |-> rec,
     param |-> LookupParam(person),
     value |-> IF LookupParam(person) = "linkedin_url" THEN person.linkedin_url
               ELSE person.email]

\* Line 194: time.sleep(0.5).
Sleep == [ev |-> "sleep"]

\* Line 155: print("Warning: Clado API key not found. Skipping enrichment.").
PrintWarning == [ev |-> "print", msg |-> "Warning", rec |-> 0]

\* Line 197: print(f"Error enriching {person.name}: {e}").
PrintError(rec) == [ev |-> "print", msg |-> "Error enriching", rec |-> rec]

\* Lines 166-198 for one record that has a lookup key: the request, the
\* update, the append and the sleep, or the except branch.
EnrichOne(key, rec, person, resp) ==
    LET c == CladoContacts(resp)
        u == UpdateContacts(person, c.contacts)
        request == CladoRequest(key, rec, person)
    IN  IF resp.kind = "network_error"
        THEN [person |-> person, events |-> <<request, PrintError(rec)>>, raised |-> TRUE]
        ELSE IF resp.status # 200
        THEN [person |-> person, events |-> <<request, Sleep>>, raised |-> FALSE]
        ELSE IF c.raised
        THEN [person |-> person, events |-> <<request, PrintError(rec)>>, raised |-> TRUE]
        ELSE IF u.raised
        THEN [person |-> u.person, events |-> <<request, PrintError(rec)>>, raised |-> TRUE]
        ELSE [person |-> u.person, events |-> <<request, Sleep>>, raised |-> FALSE]

(***************************************************************************)
(* enrich_with_clado as called directly.                                   *)
(***************************************************************************)
\* Lines 154-163: without a key the input list itself is returned.
Call_enrich_with_clado ==
    /\ pc = "idle"
    /\ op' = "enrich_with_clado"
    /\ \E batch \in SeqsUpTo(EnrichPersons, MaxPeople) :
          /\ people' = batch
          /\ people0' = batch
          /\ IF Falsy(clado_api_key)
             THEN /\ pc' = "done"
                  /\ result' = Returned(batch)
                  /\ trace' = Append(trace, PrintWarning)
             ELSE /\ pc' = "enrich"
                  /\ result' = result
                  /\ trace' = trace
    /\ enriched_people' = <<>>
    /\ idx' = 1
    /\ UNCHANGED <<keyVars, mainVars, searchVars, callVars>>

\* Lines 165-198 with the try/except around the whole for loop: the first
\* lookup that raises ends the loop.
EnrichStepStopsOnError(Replies) ==
    /\ pc = "enrich"
    /\ idx <= Len(people)
    /\ IF LookupParam(people[idx]) = ""
       THEN /\ enriched_people' = Append(enriched_people, people[idx])
            /\ idx' = idx + 1
            /\ UNCHANGED <<people, trace>>
       ELSE \E resp \in Replies :
              LET r == EnrichOne(clado_api_key, idx, people[idx], resp)
              IN  /\ people' = [people EXCEPT ![idx] = r.person]
                  /\ enriched_people' = Append(enriched_people, r.person)
                  /\ trace' = trace \o r.events
                  /\ idx' = IF r.raised THEN Len(people) + 1 ELSE idx + 1
    /\ UNCHANGED <<keyVars, mainVars, searchVars, callVars, pc, op, people0, result>>

\* Lines 165-198: one iteration of the for loop.
EnrichStep(Replies) ==
    /\ pc = "enrich"
    /\ idx <= Len(people)
    /\ idx' = idx + 1
    /\ IF LookupParam(people[idx]) = ""
       THEN /\ enriched_people' = Append(enriched_people, people[idx])
            /\ UNCHANGED <<people, trace>>
       ELSE \E resp \in Replies :
              LET r == EnrichOne(clado_api_key, idx, people[idx], resp)
              IN  /\ people' = [people EXCEPT ![idx] = r.person]
                  /\ enriched_people' = Append(enriched_people, r.person)
                  /\ trace' = trace \o r.events
    /\ UNCHANGED <<keyVars, mainVars, searchVars, callVars, pc, op, people0, result>>

\* Line 200: return enriched_people.
EnrichReturn ==
    /\ pc = "enrich"
    /\ idx > Len(people)
    /\ pc' = "done"
    /\ result' = Returned(enriched_people)
    /\ UNCHANGED <<keyVars, mainVars, searchVars, callVars, enrichVars, op, people, trace>>

InitEnrich ==
    /\ apollo_api_key = ""
    /\ hunter_api_key = ""
    /\ clado_api_key \in {"", "ck"}
    /\ pc = "idle"
    /\ op = "none"
    /\ query = <<>>
    /\ criteria = EmptyDict
    /\ people = <<>>
    /\ dom = 1
    /\ people0 = <<>>
    /\ enriched_people = <<>>
    /\ idx = 1
    /\ trace = <<>>
    /\ received = <<>>
    /\ args = EmptyDict
    /\ reply = NoReply
    /\ result = NoResult
    /\ main_pc = "none"
    /\ line = <<>>
    /\ prompts = 0
    /\ printed = ""

NextEnrich ==
    \/ Call_enrich_with_clado
    \/ EnrichStep(CladoResponses)
    \/ EnrichReturn

SpecEnrich == InitEnrich /\ [][NextEnrich]_vars

(***************************************************************************)
(* The Apollo provider: what one POST of mixed_people/search can produce.  *)
(* A raw item is a JSON object: a function from the keys it holds to str   *)
(* or None; "organization" holds None or "{}" (an object), whose name is   *)
(* the key "organization.name".                                            *)
(***************************************************************************)
ApolloFull ==
    [name |-> "Ann", email |-> "ann@x", phone |-> "555", linkedin_url |-> "in/ann",
     title |-> "CTO", city |-> "Oslo"]
    @@ ("organization" :> "{}") @@ ("organization.name" :> "Acme")

ApolloItems ==
    { ApolloFull,
      EmptyDict,
      [name |-> "Bob", linkedin_url |-> "in/bob"],
      [name |-> "Cy", email |-> None, phone |-> None, linkedin_url |-> None,
       title |-> None, city |-> None],
      [name |-> None, email |-> "d@x"],
      [name |-> "Eve"] @@ ("organization" :> None),
      [name |-> "Fay"] @@ ("organization" :> "{}"),
      [name |-> "Guy"] @@ ("organization" :> "{}") @@ ("organization.name" :> None) }

ApolloResponse(kind, ppl, items) == [kind |-> kind, people |-> ppl, items |-> items]

ApolloFailures ==
    { ApolloResponse(k, "absent", <<>>) : k \in {"network_error", "http_error", "bad_json"} }
    \cup { ApolloResponse("ok", "null", <<>>) }

ApolloResponses(Items, n) ==
    ApolloFailures
    \cup { ApolloResponse("ok", "absent", <<>>) }
    \cup { ApolloResponse("ok", "list", items) : items \in SeqsUpTo(Items, n) }

(***************************************************************************)
(* LeadGenerationSystem.search_people_apollo.                              *)
(***************************************************************************)
\* ' '.join(words)
RECURSIVE JoinSpace(_)
JoinSpace(words) ==
    IF words = <<>> THEN ""
    ELSE IF Len(words) = 1 THEN words[1]
    ELSE words[1] \o " " \o JoinSpace(Tail(words))

\* Lines 57-70: the payload holds a key for every criteria key that is
\* present, whatever its value.
ApolloPayload(crit) ==
    [page |-> 1, per_page |-> Get(crit, "limit", 25)]
    @@ (IF "job_titles" \in DOMAIN crit THEN "person_titles" :> crit.job_titles
        ELSE EmptyDict)
    @@ (IF "company_names" \in DOMAIN crit THEN "organization_names" :> crit.company_names
        ELSE EmptyDict)
    @@ (IF "locations" \in DOMAIN crit THEN "person_locations" :> crit.locations
        ELSE EmptyDict)
    @@ (IF "keywords" \in DOMAIN crit THEN "q_keywords" :> JoinSpace(crit.keywords)
        ELSE EmptyDict)

\* Lines 80-88: one Person from one item of `people`; None.get raises
\* AttributeError when organization is null.
ApolloPerson(person_data) ==
    IF Get(person_data, "organization", "{}") = None
    THEN [raised |-> TRUE, person |-> Person("", "", "", "", "", "", "")]
    ELSE [raised |-> FALSE,
          person |-> Person(Get(person_data, "name", ""),
                            Get(person_data, "email", ""),
                            Get(person_data, "phone", ""),
                            Get(person_data, "linkedin_url", ""),
                            Get(person_data, "title", ""),
                            Get(person_data, "organization.name", ""),
                            Get(person_data, "city", ""))]

\* Lines 77-91: the loop over data.get('people', []).
RECURSIVE ApolloPeople(_)
ApolloPeople(items) ==
    IF items = <<>> THEN [raised |-> FALSE, people |-> <<>>]
    ELSE LET first == ApolloPerson(Head(items))
             rest == ApolloPeople(Tail(items))
         IN  IF first.raised \/ rest.raised THEN [raised |-> TRUE, people |-> <<>>]
             ELSE [raised |-> FALSE, people |-> <<first.person>> \o rest.people]

ApolloRequest(url, key, payload) ==
    [ev |-> "request", to |-> "apollo", url |-> url, auth |-> key, payload |-> payload]

\* Lines 45-94: the key check, the POST, the normalisation. RequestException
\* is re-raised as Exception; any other exception leaves as it is.
SearchPeopleApollo(key, crit, resp) ==
    LET request == ApolloRequest("v1/mixed_people/search", key, ApolloPayload(crit))
        norm == ApolloPeople(resp.items)
    IN  IF Falsy(key)
        THEN [raised |-> TRUE, exc |-> "ValueError", people |-> <<>>, events |-> <<>>]
        ELSE IF resp.kind \in {"network_error", "http_error", "bad_json"}
        THEN [raised |-> TRUE, exc |-> "Exception", people |-> <<>>, events |-> <<request>>]
        ELSE IF resp.people = "null"
        THEN [raised |-> TRUE, exc |-> "TypeError", people |-> <<>>, events |-> <<request>>]
        ELSE IF norm.raised
        THEN [raised |-> TRUE, exc |-> "AttributeError", people |-> <<>>,
              events |-> <<request>>]
        ELSE [raised |-> FALSE, exc |-> "", people |-> norm.people, events |-> <<request>>]

(***************************************************************************)
(* The Hunter provider: what one GET of domain-search can produce.         *)
(***************************************************************************)
HunterFull ==
    [first_name |-> "Hal", last_name |-> "Ho", value |-> "hal@h", position |-> "Eng",
     linkedin |-> "in/hal"]

HunterItems ==
    { HunterFull,
      EmptyDict,
      [first_name |-> "Ida"],
      [last_name |-> "Jo", value |-> None, position |-> None, linkedin |-> None],
      [first_name |-> None, value |-> "k@h"] }

\* data: "absent", "null" or "dict"; organization: Absent, None or a str;
\* emails: "absent", "null" or "list".
HunterResponse(kind, data, organization, emails, items) ==
    [kind |-> kind, data |-> data, organization |-> organization, emails |-> emails,
     items |-> items]

HunterFailures ==
    { HunterResponse(k, "absent", Absent, "absent", <<>>) :
        k \in {"network_error", "http_error", "bad_json"} }
    \cup { HunterResponse("ok", "null", Absent, "absent", <<>>),
           HunterResponse("ok", "dict", "Org", "null", <<>>) }

HunterResponses(Items, Orgs, n) ==
    HunterFailures
    \cup { HunterResponse("ok", "absent", Absent, "absent", <<>>),
           HunterResponse("ok", "dict", "Org", "absent", <<>>) }
    \cup { HunterResponse("ok", "dict", o, "list", items) :
             o \in Orgs, items \in SeqsUpTo(Items, n) }

(***************************************************************************)
(* LeadGenerationSystem.search_people_hunter.                              *)
(***************************************************************************)
\* str(v) inside an f-string.
Format(v) == IF v = None THEN "None" ELSE v

\* Line 131: f"{first} {last}".strip(), for parts without outer blanks.
HunterName(first, last) ==
    IF Format(first) = "" THEN Format(last)
    ELSE IF Format(last) = "" THEN Format(first)
    ELSE Format(first) \o " " \o Format(last)

\* Lines 112-120.
HunterParams(key, domain, job_title) ==
    [domain |-> domain, api_key |-> key, limit |-> 25]
    @@ (IF ~Falsy(job_title) THEN [type |-> "personal", seniority |-> job_title]
        ELSE EmptyDict)

\* Lines 130-136: phone and location keep the dataclass defaults.
HunterPerson(email_data, organization) ==
    Person(HunterName(Get(email_data, "first_name", ""), Get(email_data, "last_name", "")),
           Get(email_data, "value", ""),
           "",
           Get(email_data, "linkedin", ""),
           Get(email_data, "position", ""),
           IF organization = Absent THEN "" ELSE organization,
           "")

HunterPeople(items, organization) ==
    [i \in 1..Len(items) |-> HunterPerson(items[i], organization)]

HunterRequest(key, params) ==
    [ev |-> "request", to |-> "hunter", auth |-> key, params |-> params]

\* Lines 107-142.
SearchPeopleHunter(key, domain, job_title, resp) ==
    LET request == HunterRequest(key, HunterParams(key, domain, job_title))
    IN  IF Falsy(key)
        THEN [raised |-> TRUE, exc |-> "ValueError", people |-> <<>>, events |-> <<>>]
        ELSE IF resp.kind \in {"network_error", "http_error", "bad_json"}
        THEN [raised |-> TRUE, exc |-> "Exception", people |-> <<>>, events |-> <<request>>]
        ELSE IF resp.data = "null"
        THEN [raised |-> TRUE, exc |-> "AttributeError", people |-> <<>>,
              events |-> <<request>>]
        ELSE IF resp.data = "absent" \/ resp.emails = "absent"
        THEN [raised |-> FALSE, exc |-> "", people |-> <<>>, events |-> <<request>>]
        ELSE IF resp.emails = "null"
        THEN [raised |-> TRUE, exc |-> "TypeError", people |-> <<>>, events |-> <<request>>]
        ELSE [raised |-> FALSE, exc |-> "",
              people |-> HunterPeople(resp.items, resp.organization),
              events |-> <<request>>]

(***************************************************************************)
(* apollo_people_search.py and hunter_domain_search.py. A keyword argument *)
(* that is not passed has its default, None.                               *)
(***************************************************************************)
ScriptResponses == {"network_error", "http_error", "bad_json", "ok"}

ListParams ==
    {"person_titles", "person_locations", "person_seniorities", "organization_locations",
     "q_organization_domains_list", "contact_email_status", "organization_ids",
     "organization_num_employees_ranges"}

\* apollo_people_search.py lines 33-55: a filter enters the payload only
\* when it is truthy.
PeopleSearchPayload(kw) ==
    [page |-> Get(kw, "page", 1), per_page |-> Get(kw, "per_page", 10),
     include_similar_titles |-> Get(kw, "include_similar_titles", TRUE)]
    @@ [k \in { f \in ListParams \cap DOMAIN kw : kw[f] # <<>> } |-> kw[k]]
    @@ (IF "q_keywords" \in DOMAIN kw /\ kw.q_keywords # "" THEN "q_keywords" :> kw.q_keywords
        ELSE EmptyDict)

\* apollo_people_search.py lines 23-61: no exception is caught; a status
\* other than 200 returns None.
PeopleSearch(key, kw, resp) ==
    LET request == ApolloRequest("api/v1/mixed_people/search", key, PeopleSearchPayload(kw))
    IN  IF Falsy(key) THEN [result |-> Raised("ValueError"), events |-> <<>>]
        ELSE IF resp = "network_error"
        THEN [result |-> Raised("ConnectionError"), events |-> <<request>>]
        ELSE IF resp = "http_error"
        THEN [result |-> ReturnedRaw("None"), events |-> <<request>>]
        ELSE IF resp = "bad_json"
        THEN [result |-> Raised("JSONDecodeError"), events |-> <<request>>]
        ELSE [result |-> ReturnedRaw("json"), events |-> <<request>>]

\* hunter_domain_search.py lines 34-40.
DomainSearchParams(key, domain, job_title, limit) ==
    [domain |-> domain, api_key |-> key, limit |-> limit]
    @@ (IF ~Falsy(job_title) THEN [position |-> job_title] ELSE EmptyDict)

\* hunter_domain_search.py lines 33-46: the request is sent whatever
\* HUNTER_API_KEY holds.
DomainSearch(key, domain, job_title, limit, resp) ==
    LET request == HunterRequest(key, DomainSearchParams(key, domain, job_title, limit))
    IN  IF resp = "network_error"
        THEN [result |-> Raised("ConnectionError"), events |-> <<request>>]
        ELSE IF resp = "http_error"
        THEN [result |-> ReturnedRaw("None"), events |-> <<request>>]
        ELSE IF resp = "bad_json"
        THEN [result |-> Raised("JSONDecodeError"), events |-> <<request>>]
        ELSE [result |-> ReturnedRaw("json"), events |-> <<request>>]

(***************************************************************************)
(* The provider clients as called directly.                                *)
(***************************************************************************)
\* A list argument: not given, empty, or with one or two entries.
ListChoice(c) == IF c = 1 THEN <<>> ELSE IF c = 2 THEN <<"x">> ELSE <<"x", "y">>
Entry(c, key) == IF c = 0 THEN EmptyDict ELSE key :> ListChoice(c)

CriteriaInputs ==
    { Entry(j, "job_titles") @@ Entry(c, "company_names") @@ Entry(l, "locations")
      @@ Entry(k, "keywords") @@ (IF m = 0 THEN EmptyDict ELSE "limit" :> 50) :
        j \in 0..2, c \in 0..2, l \in 0..2, k \in 0..3, m \in 0..1 }

OtherFilterInputs ==
    { [t \in ListParams |-> ListChoice(c)] : c \in 1..2 }
    \cup { EmptyDict }

PeopleSearchInputs ==
    { Entry(t, "person_titles") @@ Entry(l, "person_locations") @@ rest
      @@ (IF q = 0 THEN EmptyDict ELSE "q_keywords" :> (IF q = 1 THEN "" ELSE "ai"))
      @@ (IF n = 0 THEN EmptyDict ELSE "per_page" :> 5) :
        t \in 0..2, l \in 0..2, rest \in OtherFilterInputs, q \in 0..2, n \in 0..1 }

HunterInputs ==
    { [domain |-> d, job_title |-> t] : d \in {"google.com", "acme.io"},
                                       t \in {None, "", "senior"} }

ClientReturn(fn, a, r) ==
    /\ pc' = "done"
    /\ op' = fn
    /\ args' = a
    /\ trace' = r.events
    /\ UNCHANGED <<keyVars, mainVars, searchVars, enrichVars, people>>

\* main.py lines 30-94.
Call_search_people_apollo ==
    /\ pc = "idle"
    /\ \E crit \in CriteriaInputs, resp \in ApolloResponses(ApolloItems, MaxItems) :
          LET r == SearchPeopleApollo(apollo_api_key, crit, resp)
          IN  /\ ClientReturn("search_people_apollo", crit, r)
              /\ reply' = IF r.events = <<>> THEN NoReply ELSE resp
              /\ result' = IF r.raised THEN Raised(r.exc) ELSE Returned(r.people)

\* main.py lines 96-142.
Call_search_people_hunter ==
    /\ pc = "idle"
    /\ \E a \in HunterInputs, resp \in HunterResponses(HunterItems, {Absent, None, "Org"}, MaxItems) :
          LET r == SearchPeopleHunter(hunter_api_key, a.domain, a.job_title, resp)
          IN  /\ ClientReturn("search_people_hunter", a, r)
              /\ reply' = IF r.events = <<>> THEN NoReply ELSE resp
              /\ result' = IF r.raised THEN Raised(r.exc) ELSE Returned(r.people)

\* apollo_people_search.py lines 9-61.
Call_people_search ==
    /\ pc = "idle"
    /\ \E kw \in PeopleSearchInputs, resp \in ScriptResponses :
          LET r == PeopleSearch(apollo_api_key, kw, resp)
          IN  /\ ClientReturn("people_search", kw, r)
              /\ reply' = IF r.events = <<>> THEN NoReply ELSE [kind |-> resp]
              /\ result' = r.result

\* hunter_domain_search.py lines 33-46.
Call_domain_search ==
    /\ pc = "idle"
    /\ \E a \in HunterInputs, resp \in ScriptResponses :
          LET r == DomainSearch(hunter_api_key, a.domain, a.job_title, 10, resp)
          IN  /\ ClientReturn("domain_search", a, r)
              /\ reply' = IF r.events = <<>> THEN NoReply ELSE [kind |-> resp]
              /\ result' = r.result

InitClients ==
    /\ apollo_api_key \in {"", "ak"}
    /\ hunter_api_key \in {"", "hk"}
    /\ clado_api_key = ""
    /\ pc = "idle"
    /\ op = "none"
    /\ query = <<>>
    /\ criteria = EmptyDict
    /\ people = <<>>
    /\ dom = 1
    /\ people0 = <<>>
    /\ enriched_people = <<>>
    /\ idx = 1
    /\ trace = <<>>
    /\ received = <<>>
    /\ args = EmptyDict
    /\ reply = NoReply
    /\ result = NoResult
    /\ main_pc = "none"
    /\ line = <<>>
    /\ prompts = 0
    /\ printed = ""

NextClients ==
    \/ Call_search_people_apollo
    \/ Call_search_people_hunter
    \/ Call_people_search
    \/ Call_domain_search

SpecClients == InitClients /\ [][NextClients]_vars

(***************************************************************************)
(* Query strings: sequences of characters.                                 *)
(***************************************************************************)
UpperCase ==
    <<"A", "B", "C", "D", "E", "F", "G", "H", "I", "J", "K", "L", "M",
      "N", "O", "P", "Q", "R", "S", "T", "U", "V", "W", "X", "Y", "Z">>
LowerCase ==
    <<"a", "b", "c", "d", "e", "f", "g", "h", "i", "j", "k", "l", "m",
      "n", "o", "p", "q", "r", "s", "t", "u", "v", "w", "x", "y", "z">>

ToLower ==
    [c \in { UpperCase[n] : n \in 1..Len(UpperCase) } |->
        LowerCase[CHOOSE n \in 1..Len(UpperCase) : UpperCase[n] = c]]
ToUpper ==
    [c \in { LowerCase[n] : n \in 1..Len(LowerCase) } |->
        UpperCase[CHOOSE n \in 1..Len(LowerCase) : LowerCase[n] = c]]

\* str.lower(), character by character.
LowerChar(c) == IF c \in DOMAIN ToLower THEN ToLower[c] ELSE c
Lower(s) == [i \in 1..Len(s) |-> LowerChar(s[i])]

\* `sub in s` for strings.
Contains(s, sub) ==
    /\ Len(sub) <= Len(s)
    /\ \E i \in 1..(Len(s) - Len(sub) + 1) : SubSeq(s, i, i + Len(sub) - 1) = sub

faang == <<"f", "a", "a", "n", "g">>
engineer == <<"e", "n", "g", "i", "n", "e", "e", "r">>
developer == <<"d", "e", "v", "e", "l", "o", "p", "e", "r">>
manager == <<"m", "a", "n", "a", "g", "e", "r">>
director == <<"d", "i", "r", "e", "c", "t", "o", "r">>
ceo == <<"c", "e", "o">>
cto == <<"c", "t", "o">>

\* Words the modelled queries are made of.
Words ==
    { <<"F", "A", "A", "N", "G">>,
      <<"E", "n", "g", "i", "n", "e", "e", "r", "s">>,
      developer,
      <<"M", "a", "n", "a", "g", "e", "r">>,
      <<"D", "i", "r", "e", "c", "t", "o", "r">>,
      <<"C", "E", "O">>,
      cto,
      <<"d", "o", "c", "t", "o", "r">>,
      <<"s", "a", "l", "e", "s">> }

RECURSIVE Sentence(_)
Sentence(ws) ==
    IF ws = <<>> THEN <<>>
    ELSE IF Len(ws) = 1 THEN ws[1]
    ELSE ws[1] \o <<" ">> \o Sentence(Tail(ws))

Queries == { Sentence(ws) : ws \in SeqsUpTo(Words, MaxWords) }

\* "People working in FAANG", "Software engineers at Google", "CTOs",
\* "something unrelated".
SearchQueries ==
    { Sentence(<< <<"P", "e", "o", "p", "l", "e">>, <<"w", "o", "r", "k", "i", "n", "g">>,
                  <<"i", "n">>, <<"F", "A", "A", "N", "G">> >>),
      Sentence(<< <<"S", "o", "f", "t", "w", "a", "r", "e">>,
                  <<"e", "n", "g", "i", "n", "e", "e", "r", "s">>, <<"a", "t">>,
                  <<"G", "o", "o", "g", "l", "e">> >>),
      <<"C", "T", "O", "s">>,
      Sentence(<< <<"s", "o", "m", "e", "t", "h", "i", "n", "g">>,
                  <<"u", "n", "r", "e", "l", "a", "t", "e", "d">> >>) }

(***************************************************************************)
(* search_by_natural_language.                                             *)
(***************************************************************************)
faang_companies == <<"Meta", "Apple", "Amazon", "Netflix", "Google">>
faang_domains == <<"meta.com", "apple.com", "amazon.com", "netflix.com", "google.com">>

\* Lines 242-251 testing 'cto' before 'ceo'.
JobTitlesCtoFirst(query_lower) ==
    IF Contains(query_lower, engineer) \/ Contains(query_lower, developer)
    THEN <<"Software Engineer", "Senior Software Engineer", "Developer">>
    ELSE IF Contains(query_lower, manager)
    THEN <<"Engineering Manager", "Product Manager", "Manager">>
    ELSE IF Contains(query_lower, director)
    THEN <<"Director", "Engineering Director">>
    ELSE IF Contains(query_lower, cto)
    THEN <<"CTO", "Chief Technology Officer">>
    ELSE IF Contains(query_lower, ceo)
    THEN <<"CEO", "Chief Executive Officer">>
    ELSE <<>>

\* Lines 241-251: the if/elif chain that picks job_titles.
JobTitles(query_lower) ==
    IF Contains(query_lower, engineer) \/ Contains(query_lower, developer)
    THEN <<"Software Engineer", "Senior Software Engineer", "Developer">>
    ELSE IF Contains(query_lower, manager)
    THEN <<"Engineering Manager", "Product Manager", "Manager">>
    ELSE IF Contains(query_lower, director)
    THEN <<"Director", "Engineering Director">>
    ELSE IF Contains(query_lower, ceo)
    THEN <<"CEO", "Chief Executive Officer">>
    ELSE IF Contains(query_lower, cto)
    THEN <<"CTO", "Chief Technology Officer">>
    ELSE <<>>

\* Lines 216-256: the branch taken and the criteria it builds; without a
\* match no criteria are built.
Classify(query_lower) ==
    IF Contains(query_lower, faang)
    THEN [branch |-> "faang",
          criteria |-> [company_names |-> faang_companies, limit |-> 50]]
    ELSE IF \E title \in {engineer, developer, manager, director, ceo, cto} :
                Contains(query_lower, title)
    THEN [branch |-> "title",
          criteria |-> [job_titles |-> JobTitles(query_lower), limit |-> 25]]
    ELSE [branch |-> "none", criteria |-> EmptyDict]

\* Line 227 and line 237.
PrintFailed(source) == [ev |-> "print", msg |-> "search failed", source |-> source]

\* The provider's answers in a run of the aggregator: with or without
\* failing calls, at most n items.
SearchApolloItems(failures) ==
    { ApolloFull, [name |-> "Bob", linkedin_url |-> "in/bob"] }
    \cup (IF failures THEN { [name |-> "Eve"] @@ ("organization" :> None) } ELSE {})

ApolloReplies(failures, n) ==
    ApolloResponses(SearchApolloItems(failures), n)
    \ (IF failures THEN {} ELSE ApolloFailures)

HunterReplies(failures, n) ==
    HunterResponses({HunterFull}, {"Org"}, n)
    \ (IF failures THEN {} ELSE HunterFailures)

Room(budget) == IF Len(people) < budget THEN budget - Len(people) ELSE 0

\* Lines 212-221 and 240-256: lower-case the query, pick the branch.
Call_search_by_natural_language(Qs) ==
    /\ pc = "idle"
    /\ op' = "search_by_natural_language"
    /\ \E q \in Qs :
          LET c == Classify(Lower(q))
          IN  /\ query' = q
              /\ criteria' = c.criteria
              /\ pc' = IF c.branch = "faang" THEN "faang_apollo"
                       ELSE IF c.branch = "title" THEN "title_apollo"
                       ELSE "finish"
    /\ people' = <<>>
    /\ dom' = 1
    /\ UNCHANGED <<keyVars, mainVars, enrichVars, callVars, trace, received, result>>

\* Lines 223-227 and 258-262: the Apollo search, when a key is configured.
SearchApollo(failures, budget) ==
    /\ pc \in {"faang_apollo", "title_apollo"}
    /\ pc' = IF pc = "faang_apollo" THEN "hunter" ELSE "finish"
    /\ IF Falsy(apollo_api_key)
       THEN UNCHANGED <<people, trace, received>>
       ELSE \E resp \in ApolloReplies(failures, Room(budget)) :
              LET r == SearchPeopleApollo(apollo_api_key, criteria, resp)
              IN  IF r.raised
                  THEN /\ trace' = trace \o r.events \o <<PrintFailed("apollo")>>
                       /\ UNCHANGED <<people, received>>
                  ELSE /\ trace' = trace \o r.events
                       /\ people' = r.people
                       /\ received' = Append(received, [source |-> "apollo",
                                                        people |-> r.people])
    /\ UNCHANGED <<keyVars, mainVars, enrichVars, callVars, op, query, criteria, dom, result>>

\* Lines 231-237 with the try/except around the whole for loop: the first
\* failing domain ends the loop.
SearchHunterStopsOnError(failures, budget) ==
    /\ pc = "hunter"
    /\ IF Falsy(hunter_api_key)
       THEN /\ dom' = dom + 1
            /\ pc' = IF dom = Len(faang_domains) THEN "finish" ELSE "hunter"
            /\ UNCHANGED <<people, trace, received>>
       ELSE \E resp \in HunterReplies(failures, Room(budget)) :
              LET r == SearchPeopleHunter(hunter_api_key, faang_domains[dom], None, resp)
              IN  IF r.raised
                  THEN /\ trace' = trace \o r.events \o <<PrintFailed(faang_domains[dom])>>
                       /\ dom' = Len(faang_domains) + 1
                       /\ pc' = "finish"
                       /\ UNCHANGED <<people, received>>
                  ELSE /\ trace' = trace \o r.events
                       /\ dom' = dom + 1
                       /\ pc' = IF dom = Len(faang_domains) THEN "finish" ELSE "hunter"
                       /\ people' = people \o r.people
                       /\ received' = Append(received, [source |-> faang_domains[dom],
                                                        people |-> r.people])
    /\ UNCHANGED <<keyVars, mainVars, enrichVars, callVars, op, query, criteria, result>>

\* Lines 231-237 with people.insert(0, ...) for people.extend(...): the
\* domain's records go in front.
SearchHunterPrepends(failures, budget) ==
    /\ pc = "hunter"
    /\ dom' = dom + 1
    /\ pc' = IF dom = Len(faang_domains) THEN "finish" ELSE "hunter"
    /\ IF Falsy(hunter_api_key)
       THEN UNCHANGED <<people, trace, received>>
       ELSE \E resp \in HunterReplies(failures, Room(budget)) :
              LET r == SearchPeopleHunter(hunter_api_key, faang_domains[dom], None, resp)
              IN  IF r.raised
                  THEN /\ trace' = trace \o r.events \o <<PrintFailed(faang_domains[dom])>>
                       /\ UNCHANGED <<people, received>>
                  ELSE /\ trace' = trace \o r.events
                       /\ people' = r.people \o people
                       /\ received' = Append(received, [source |-> faang_domains[dom],
                                                        people |-> r.people])
    /\ UNCHANGED <<keyVars, mainVars, enrichVars, callVars, op, query, criteria, result>>

\* Lines 231-237: one iteration of the loop over faang_domains.
SearchHunter(failures, budget) ==
    /\ pc = "hunter"
    /\ dom' = dom + 1
    /\ pc' = IF dom = Len(faang_domains) THEN "finish" ELSE "hunter"
    /\ IF Falsy(hunter_api_key)
       THEN UNCHANGED <<people, trace, received>>
       ELSE \E resp \in HunterReplies(failures, Room(budget)) :
              LET r == SearchPeopleHunter(hunter_api_key, faang_domains[dom], None, resp)
              IN  IF r.raised
                  THEN /\ trace' = trace \o r.events \o <<PrintFailed(faang_domains[dom])>>
                       /\ UNCHANGED <<people, received>>
                  ELSE /\ trace' = trace \o r.events
                       /\ people' = people \o r.people
                       /\ received' = Append(received, [source |-> faang_domains[dom],
                                                        people |-> r.people])
    /\ UNCHANGED <<keyVars, mainVars, enrichVars, callVars, op, query, criteria, result>>

\* Lines 265-268, and lines 154-163 of enrich_with_clado when it is called.
SearchFinish ==
    /\ pc = "finish"
    /\ IF people # <<>> /\ ~Falsy(clado_api_key)
       THEN /\ pc' = "enrich"
            /\ people0' = people
            /\ enriched_people' = <<>>
            /\ idx' = 1
            /\ result' = result
       ELSE /\ pc' = "done"
            /\ result' = Returned(people)
            /\ UNCHANGED enrichVars
    /\ UNCHANGED <<keyVars, mainVars, searchVars, callVars, op, people, trace>>

InitSearch ==
    /\ apollo_api_key \in {"", "ak"}
    /\ hunter_api_key \in {"", "hk"}
    /\ clado_api_key \in {"", "ck"}
    /\ pc = "idle"
    /\ op = "none"
    /\ query = <<>>
    /\ criteria = EmptyDict
    /\ people = <<>>
    /\ dom = 1
    /\ people0 = <<>>
    /\ enriched_people = <<>>
    /\ idx = 1
    /\ trace = <<>>
    /\ received = <<>>
    /\ args = EmptyDict
    /\ reply = NoReply
    /\ result = NoResult
    /\ main_pc = "none"
    /\ line = <<>>
    /\ prompts = 0
    /\ printed = ""

\* The aggregator on the documented example queries, providers that may fail.
NextSearch ==
    \/ Call_search_by_natural_language(SearchQueries)
    \/ SearchApollo(TRUE, MaxResults)
    \/ SearchHunter(TRUE, MaxResults)
    \/ SearchFinish
    \/ EnrichStep(SearchCladoReplies)
    \/ EnrichReturn

SpecSearch == InitSearch /\ [][NextSearch]_vars

\* The aggregator on every query of up to MaxWords words, providers that answer.
NextClassify ==
    \/ Call_search_by_natural_language(Queries)
    \/ SearchApollo(FALSE, MaxClassifyResults)
    \/ SearchHunter(FALSE, MaxClassifyResults)
    \/ SearchFinish
    \/ EnrichStep(SearchCladoReplies)
    \/ EnrichReturn

SpecClassify == InitSearch /\ [][NextClassify]_vars

(***************************************************************************)
(* main(): the interactive session.                                        *)
(***************************************************************************)
\* str.strip() for the blanks a typed line can carry.
RECURSIVE StripLeft(_)
StripLeft(s) == IF s # <<>> /\ Head(s) = " " THEN StripLeft(Tail(s)) ELSE s

RECURSIVE StripRight(_)
StripRight(s) ==
    IF s # <<>> /\ s[Len(s)] = " " THEN StripRight(SubSeq(s, 1, Len(s) - 1)) ELSE s

Strip(s) == StripRight(StripLeft(s))

\* Line 338: ['quit', 'exit', 'q'].
QuitWords == { <<"q", "u", "i", "t">>, <<"e", "x", "i", "t">>, <<"q">> }

\* What the user may type at "Your search: ": the three leave words, one of
\* them capitalised between blanks, an empty and a blank line, a word that
\* only starts like a leave word, and queries of the three kinds.
SessionLines ==
    { <<"q", "u", "i", "t">>, <<" ", "E", "x", "i", "t", " ">>, <<"q">>,
      <<>>, <<" ">>,
      <<"q", "u", "i", "t", "s">>,
      <<"F", "A", "A", "N", "G">>,
      <<"C", "T", "O", "s">> }

\* Lines 353-374: the answer to the export question and what writing the
\* file does; input() and open() raise inside the try block.
ExportOutcomes == {"n", "y_written", "y_open_raises"}

\* Lines 306-322: the banner, the key check, the fatal return.
Main_start ==
    /\ main_pc = "start"
    /\ main_pc' = IF Falsy(apollo_api_key) /\ Falsy(hunter_api_key) /\ Falsy(clado_api_key)
                  THEN "returned" ELSE "prompt"
    /\ UNCHANGED <<keyVars, searchVars, enrichVars, callVars, pc, op, people, trace,
                   result, line, prompts, printed>>

\* Lines 324-344: the prompt, the leave words, the empty query.
Main_prompt ==
    /\ main_pc = "prompt"
    /\ prompts < MaxPrompts
    /\ prompts' = prompts + 1
    /\ \E typed \in SessionLines :
          /\ line' = typed
          /\ main_pc' = IF Lower(Strip(typed)) \in QuitWords THEN "returned"
                        ELSE IF Strip(typed) = <<>> THEN "prompt"
                        ELSE "try"
    /\ UNCHANGED <<keyVars, searchVars, enrichVars, callVars, pc, op, people, trace,
                   result, printed>>

\* Line 349: people = system.search_by_natural_language(query).
Main_search ==
    /\ main_pc = "try"
    /\ Call_search_by_natural_language({Strip(line)})

\* Lines 350-376 without the except clause: an exception of the export
\* leaves main().
Main_resultsUncaught ==
    /\ main_pc = "try"
    /\ pc = "done"
    /\ IF result.value = <<>>
       THEN /\ printed' = "No people found."
            /\ main_pc' = "prompt"
       ELSE \E export \in ExportOutcomes :
              /\ printed' = IF export = "n" THEN "FOUND"
                            ELSE IF export = "y_written" THEN "Results exported"
                            ELSE "Traceback"
              /\ main_pc' = IF export = "y_open_raises" THEN "returned" ELSE "prompt"
    /\ pc' = "idle"
    /\ people' = <<>>
    /\ query' = <<>>
    /\ criteria' = EmptyDict
    /\ dom' = 1
    /\ received' = <<>>
    /\ people0' = <<>>
    /\ enriched_people' = <<>>
    /\ idx' = 1
    /\ trace' = <<>>
    /\ result' = NoResult
    /\ UNCHANGED <<keyVars, callVars, op, line, prompts>>

\* Lines 350-376: print_people_results, the export question, the export,
\* the except clause; then the loop is back at the prompt and the call's
\* values are gone.
Main_results ==
    /\ main_pc = "try"
    /\ pc = "done"
    /\ IF result.value = <<>>
       THEN printed' = "No people found."
       ELSE \E export \in ExportOutcomes :
              printed' = IF export = "n" THEN "FOUND"
                         ELSE IF export = "y_written" THEN "Results exported"
                         ELSE "Error"
    /\ main_pc' = "prompt"
    /\ pc' = "idle"
    /\ people' = <<>>
    /\ query' = <<>>
    /\ criteria' = EmptyDict
    /\ dom' = 1
    /\ received' = <<>>
    /\ people0' = <<>>
    /\ enriched_people' = <<>>
    /\ idx' = 1
    /\ trace' = <<>>
    /\ result' = NoResult
    /\ UNCHANGED <<keyVars, callVars, op, line, prompts>>

\* Lines 25-27: os.getenv gives None for a variable that is not set.
InitMain ==
    /\ apollo_api_key \in {None, "", "ak"}
    /\ hunter_api_key \in {None, "", "hk"}
    /\ clado_api_key \in {None, "", "ck"}
    /\ pc = "idle"
    /\ op = "none"
    /\ query = <<>>
    /\ criteria = EmptyDict
    /\ people = <<>>
    /\ dom = 1
    /\ people0 = <<>>
    /\ enriched_people = <<>>
    /\ idx = 1
    /\ trace = <<>>
    /\ received = <<>>
    /\ args = EmptyDict
    /\ reply = NoReply
    /\ result = NoResult
    /\ main_pc = "start"
    /\ line = <<>>
    /\ prompts = 0
    /\ printed = ""

\* The session, the search it calls with providers that may fail.
NextMain ==
    \/ Main_start
    \/ Main_prompt
    \/ Main_search
    \/ SearchApollo(TRUE, MaxSessionResults)
    \/ SearchHunter(TRUE, MaxSessionResults)
    \/ SearchFinish
    \/ EnrichStep(SearchCladoReplies)
    \/ EnrichReturn
    \/ Main_results

SpecMain == InitMain /\ [][NextMain]_vars

(***************************************************************************)
(* Properties of enrich_with_clado.                                        *)
(***************************************************************************)
Requests(to) == { k \in 1..Len(trace) : trace[k].ev = "request" /\ trace[k].to = to }
Sleeps == { k \in 1..Len(trace) : trace[k].ev = "sleep" }
ErrorRecords ==
    { trace[k].rec :
        k \in { j \in 1..Len(trace) : trace[j].ev = "print" /\ trace[j].msg = "Error enriching" } }

SameFrame(p, q) ==
    /\ p.name = q.name
    /\ p.linkedin_url = q.linkedin_url
    /\ p.job_title = q.job_title
    /\ p.company = q.company
    /\ p.location = q.location

\* What enrichment may do to a record: fill an empty email, fill an empty phone.
OnlyFilled(now, before) ==
    /\ SameFrame(now, before)
    /\ ~Falsy(before.email) => now.email = before.email
    /\ ~Falsy(before.phone) => now.phone = before.phone

InEnrich == op = "enrich_with_clado"

\* C1: whatever the provider answers, enrichment changes a record's email or
\* phone only if that field was empty on input, and leaves name, linkedin_url,
\* job_title, company and location as they were, in the input list's objects,
\* in enriched_people and in the returned list.
C1_OnlyFillsEmpty ==
    InEnrich =>
        /\ \A i \in 1..Len(people) : OnlyFilled(people[i], people0[i])
        /\ \A i \in 1..Len(enriched_people) : OnlyFilled(enriched_people[i], people0[i])
        /\ pc = "done" =>
              \A i \in 1..Len(result.value) : OnlyFilled(result.value[i], people0[i])

\* A returned batch in which a record that came with an email and no phone
\* had its phone filled: the provider answered for a record with a non-empty
\* email, and the email is the input's.
C1_Witness ==
    /\ InEnrich
    /\ pc = "done"
    /\ \E i \in 1..Len(result.value) :
          /\ people0[i].email = "e0"
          /\ people0[i].phone = ""
          /\ result.value[i].phone = "p9"
          /\ result.value[i].email = "e0"

\* C2: a record whose lookup ended in an error (the except branch ran for it)
\* has all its input field values on output.
C2_ErrorLeavesRecordUnchanged ==
    (InEnrich /\ pc = "done") =>
        \A i \in ErrorRecords : result.value[i] = people0[i]

\* C3: enrich_with_clado returns without raising a list of the input's length
\* whose position i holds input record i, every record with a lookup key got
\* its lookup whatever happened to the records before it, and the loop can
\* always take its next step.
C3_SameLengthAndOrder ==
    InEnrich =>
        /\ pc = "enrich" => (idx <= Len(people) + 1 /\ (ENABLED EnrichStep(CladoResponses) \/ ENABLED EnrichReturn))
        /\ pc = "enrich" => Len(enriched_people) = idx - 1
        /\ pc = "done" =>
              /\ ~result.raised
              /\ Len(result.value) = Len(people0)
              /\ \A i \in 1..Len(people0) :
                    /\ result.value[i] = people[i]
                    /\ SameFrame(result.value[i], people0[i])
              /\ ~Falsy(clado_api_key) =>
                    \A i \in 1..Len(people0) :
                        LookupParam(people0[i]) # "" =>
                            \E k \in Requests("clado") : trace[k].rec = i

\* A returned batch whose first record's lookup failed and whose second
\* record was looked up and filled.
C3_Witness ==
    /\ InEnrich
    /\ pc = "done"
    /\ Len(result.value) = 2
    /\ 1 \in ErrorRecords
    /\ result.value[1].name = "a"
    /\ result.value[2].name = "b"
    /\ people0[2].email = ""
    /\ result.value[2].email = "e9"

\* C10: every lookup call of a batch is followed by a pacing delay before
\* the next lookup call or the return.
C10_DelayAfterEveryLookup ==
    InEnrich =>
        /\ \A j, k \in Requests("clado") :
              j < k => \E m \in Sleeps : j < m /\ m < k
        /\ pc = "done" =>
              \A j \in Requests("clado") : \E m \in Sleeps : j < m

\* The lookups sent so far, in program order: record index, query parameter
\* name, query parameter value.
RECURSIVE LookupsSent(_)
LookupsSent(t) ==
    IF t = <<>> THEN <<>>
    ELSE LET e == Head(t)
         IN  (IF e.ev = "request" /\ e.to = "clado"
              THEN << <<e.rec, e.param, e.value>> >> ELSE <<>>) \o LookupsSent(Tail(t))

\* The lookups the first n input records call for, in input order: one for
\* each record with a non-empty linkedin_url or email, by linkedin_url when
\* it is non-empty and by email otherwise.
RECURSIVE LookupsDue(_, _)
LookupsDue(batch, n) ==
    IF n = 0 THEN <<>>
    ELSE LET p == batch[n]
         IN  LookupsDue(batch, n - 1) \o
             (IF p.linkedin_url # "" THEN << <<n, "linkedin_url", p.linkedin_url>> >>
              ELSE IF p.email # "" THEN << <<n, "email", p.email>> >>
              ELSE <<>>)

HasNoLookupKey(p) == p.linkedin_url = "" /\ p.email = ""

\* C11: with a Clado key, the lookups sent are, in input order, exactly one
\* per record handled so far that has a non-empty linkedin_url or email,
\* keyed by linkedin_url when non-empty and by email otherwise, each carrying
\* the key; a record with neither is passed through with its input values.
\* Without a key no lookup is sent and the input list is returned as it came.
C11_OneLookupPerKeyedRecord ==
    InEnrich =>
        /\ ~Falsy(clado_api_key) =>
              /\ LookupsSent(trace) = LookupsDue(people0, idx - 1)
              /\ \A k \in Requests("clado") : trace[k].auth = clado_api_key
              /\ \A i \in 1..Len(enriched_people) :
                    HasNoLookupKey(people0[i]) => enriched_people[i] = people0[i]
              /\ pc = "done" =>
                    /\ LookupsSent(trace) = LookupsDue(people0, Len(people0))
                    /\ \A i \in 1..Len(people0) :
                          HasNoLookupKey(people0[i]) => result.value[i] = people0[i]
        /\ Falsy(clado_api_key) =>
              /\ pc = "done"
              /\ Requests("clado") = {}
              /\ result = Returned(people0)
              /\ people = people0

\* A returned batch of a record with both a linkedin_url and an email, looked
\* up by its linkedin_url, and a record with an email only, looked up by it.
C11_Witness ==
    /\ InEnrich
    /\ pc = "done"
    /\ ~Falsy(clado_api_key)
    /\ Len(people0) = 2
    /\ people0[1].linkedin_url = "l0" /\ people0[1].email = "e0"
    /\ people0[2].linkedin_url = "" /\ people0[2].email = "e0"
    /\ LookupsSent(trace) = << <<1, "linkedin_url", "l0">>, <<2, "email", "e0">> >>

(***************************************************************************)
(* Properties of the provider clients.                                     *)
(***************************************************************************)
ApolloListKeys ==
    {"person_titles", "organization_names", "person_locations"} \cup ListParams

PersonFields ==
    {"name", "email", "phone", "linkedin_url", "job_title", "company", "location"}

\* The key of an Apollo item a Person field is read from.
ApolloSourceKey(f) ==
    IF f = "job_title" THEN "title"
    ELSE IF f = "company" THEN "organization.name"
    ELSE IF f = "location" THEN "city"
    ELSE f

\* The provider supplied a value: the key is there and does not hold null.
Supplied(item, k) == k \in DOMAIN item /\ item[k] # None

\* C6: the body of every request sent to Apollo holds no filter that is an
\* empty list or an empty string.
C6_ApolloBodyHasNoEmptyFilter ==
    \A k \in Requests("apollo") :
        LET payload == trace[k].payload
        IN  /\ \A f \in ApolloListKeys \cap DOMAIN payload : payload[f] # <<>>
            /\ "q_keywords" \in DOMAIN payload => payload.q_keywords # ""

\* C8: a normalised Apollo response of N items gives N records in the items'
\* order, and every field of a normalised record, Apollo or Hunter, is a
\* string, the empty one where the provider supplied no value.
C8_NormalizedFieldsAreStrings ==
    /\ (op = "search_people_apollo" /\ ~result.raised /\ reply.kind = "ok"
          /\ reply.people = "list") =>
          /\ Len(result.value) = Len(reply.items)
          /\ \A i \in 1..Len(result.value), f \in PersonFields :
                /\ result.value[i][f] # None
                /\ Supplied(reply.items[i], ApolloSourceKey(f)) =>
                      result.value[i][f] = reply.items[i][ApolloSourceKey(f)]
                /\ ~Supplied(reply.items[i], ApolloSourceKey(f)) => result.value[i][f] = ""
    /\ (op = "search_people_hunter" /\ ~result.raised) =>
          \A i \in 1..Len(result.value), f \in PersonFields : result.value[i][f] # None

\* C9: no provider search client sends a request without its API key: with
\* the key missing the call raises the configuration error and sends nothing.
C9_NoRequestWithoutKey ==
    /\ \A k \in Requests("apollo") \cup Requests("hunter") : ~Falsy(trace[k].auth)
    /\ (pc = "done" /\ op \in {"search_people_apollo", "people_search"}
          /\ Falsy(apollo_api_key)) => (result.raised /\ result.exc = "ValueError")
    /\ (pc = "done" /\ op \in {"search_people_hunter", "domain_search"}
          /\ Falsy(hunter_api_key)) => (result.raised /\ result.exc = "ValueError")

(***************************************************************************)
(* Properties of search_by_natural_language.                               *)
(***************************************************************************)
InSearch == op = "search_by_natural_language"

IsProviderRequest(e) == e.ev = "request" /\ e.to \in {"apollo", "hunter"}

\* The searches issued so far, in the order they were sent.
ProviderRequests == SelectSeq(trace, IsProviderRequest)

FailedSources ==
    { trace[k].source :
        k \in { j \in 1..Len(trace) : trace[j].ev = "print" /\ trace[j].msg = "search failed" } }

RECURSIVE Flatten(_)
Flatten(entries) ==
    IF entries = <<>> THEN <<>> ELSE Head(entries).people \o Flatten(Tail(entries))

\* Apollo is source 0, faang_domains[d] is source d.
Rank(source) ==
    IF source = "apollo" THEN 0
    ELSE CHOOSE d \in 1..Len(faang_domains) : faang_domains[d] = source

\* The returned list is the received records, source after source, each at
\* most filled in by the enrichment.
ReturnsReceived ==
    /\ Len(result.value) = Len(Flatten(received))
    /\ \A i \in 1..Len(result.value) : OnlyFilled(result.value[i], Flatten(received)[i])
    /\ Falsy(clado_api_key) => result.value = Flatten(received)

IsFaangQuery == Contains(Lower(query), faang)

\* C4: on a FAANG query with both search keys the Apollo search is sent first,
\* then the Hunter searches in the order of faang_domains, and the returned
\* list holds Apollo's records, then each domain's records in that order, all
\* of them once.
C4_ApolloThenHunterInDomainOrder ==
    (InSearch /\ IsFaangQuery /\ ~Falsy(apollo_api_key) /\ ~Falsy(hunter_api_key)) =>
        /\ \A k \in 1..Len(ProviderRequests) :
              IF k = 1 THEN ProviderRequests[k].to = "apollo"
              ELSE /\ ProviderRequests[k].to = "hunter"
                   /\ k - 1 <= Len(faang_domains)
                   /\ ProviderRequests[k].params.domain = faang_domains[k - 1]
        /\ \A j, k \in 1..Len(received) :
              j < k => Rank(received[j].source) < Rank(received[k].source)
        /\ pc = "done" =>
              /\ Len(ProviderRequests) = 1 + Len(faang_domains)
              /\ ReturnsReceived

\* A FAANG query answered by Apollo and by apple.com with one record each:
\* the returned list is Apollo's Bob, then Hunter's Hal Ho.
C4_Witness ==
    /\ InSearch
    /\ pc = "done"
    /\ IsFaangQuery
    /\ \E j, k \in 1..Len(received) :
          /\ received[j].source = "apollo"
          /\ Len(received[j].people) = 1
          /\ received[k].source = "apple.com"
          /\ Len(received[k].people) = 1
    /\ Len(result.value) = 2
    /\ result.value[1].name = "Bob"
    /\ result.value[2].name = "Hal Ho"

\* The searches the configured keys call for once the query is classified.
ExpectedSources ==
    (IF ~Falsy(apollo_api_key) /\ DOMAIN criteria # {} THEN {"apollo"} ELSE {})
    \cup (IF ~Falsy(hunter_api_key) /\ IsFaangQuery
          THEN { faang_domains[d] : d \in 1..Len(faang_domains) } ELSE {})

RequestedSources ==
    { IF ProviderRequests[k].to = "apollo" THEN "apollo"
      ELSE ProviderRequests[k].params.domain : k \in 1..Len(ProviderRequests) }

ReceivedSources == { received[k].source : k \in 1..Len(received) }

\* C5: no failing provider call ends the aggregation: the function never
\* raises and can always go on; a failed call contributes nothing, every
\* search the keys call for is still sent, and the returned list holds the
\* records of the calls that succeeded.
C5_ProviderFailureNeverAborts ==
    InSearch =>
        /\ ~result.raised
        /\ pc # "done" => ENABLED NextSearch
        /\ FailedSources \cap ReceivedSources = {}
        /\ FailedSources \cup ReceivedSources = RequestedSources
        /\ pc \in {"finish", "enrich", "done"} => RequestedSources = ExpectedSources
        /\ pc = "done" => (result.ret = "list" /\ ReturnsReceived)

\* A FAANG query whose Apollo search and meta.com search failed, whose
\* apple.com search returned a record, and whose google.com search failed:
\* the record is returned.
C5_Witness ==
    /\ InSearch
    /\ pc = "done"
    /\ {"apollo", "meta.com", "google.com"} \subseteq FailedSources
    /\ "apple.com" \in ReceivedSources
    /\ Len(result.value) = 1
    /\ result.value[1].name = "Hal Ho"

\* The keyword table of the classifier, in its order of priority.
KeywordTable ==
    << [keywords |-> {engineer, developer},
        job_titles |-> <<"Software Engineer", "Senior Software Engineer", "Developer">>],
       [keywords |-> {manager},
        job_titles |-> <<"Engineering Manager", "Product Manager", "Manager">>],
       [keywords |-> {director}, job_titles |-> <<"Director", "Engineering Director">>],
       [keywords |-> {ceo}, job_titles |-> <<"CEO", "Chief Executive Officer">>],
       [keywords |-> {cto}, job_titles |-> <<"CTO", "Chief Technology Officer">>] >>

\* The keyword occurs in the query in any mix of upper and lower case.
Occurs(keyword, q) ==
    \E i \in 1..Len(q) :
        /\ i + Len(keyword) - 1 <= Len(q)
        /\ \A j \in 1..Len(keyword) :
              q[i + j - 1] = keyword[j] \/ q[i + j - 1] = ToUpper[keyword[j]]

Matches(row, q) == \E keyword \in KeywordTable[row].keywords : Occurs(keyword, q)

ExpectedCriteria(q) ==
    IF Occurs(faang, q)
    THEN [company_names |-> <<"Meta", "Apple", "Amazon", "Netflix", "Google">>, limit |-> 50]
    ELSE IF \E row \in 1..Len(KeywordTable) : Matches(row, q)
    THEN LET first == CHOOSE row \in 1..Len(KeywordTable) :
                        /\ Matches(row, q)
                        /\ \A earlier \in 1..(row - 1) : ~Matches(earlier, q)
         IN  [job_titles |-> KeywordTable[first].job_titles, limit |-> 25]
    ELSE EmptyDict

\* C7: the criteria are decided by the query without regard to case: FAANG
\* criteria when it contains "faang", else the job titles of the first
\* keyword row it matches with limit 25, else none; the Apollo search carries
\* these criteria; and a query that matches nothing sends no request and
\* returns the empty list.
C7_CriteriaFromKeywordTable ==
    InSearch =>
        LET expected == ExpectedCriteria(query)
        IN  /\ criteria = expected
            /\ \A k \in Requests("apollo") :
                  /\ trace[k].payload.per_page = expected.limit
                  /\ "company_names" \in DOMAIN expected =>
                        trace[k].payload.organization_names = expected.company_names
                  /\ "job_titles" \in DOMAIN expected =>
                        trace[k].payload.person_titles = expected.job_titles
            /\ DOMAIN expected = {} =>
                  /\ trace = <<>>
                  /\ pc \in {"finish", "done"}
                  /\ pc = "done" => (~result.raised /\ result.value = <<>>)

\* The query "CEO cto" matches two rows; the CEO row comes first, and the
\* search returned a record.
C7_Witness ==
    /\ InSearch
    /\ pc = "done"
    /\ query = <<"C", "E", "O", " ", "c", "t", "o">>
    /\ criteria.job_titles = <<"CEO", "Chief Executive Officer">>
    /\ criteria.limit = 25
    /\ Len(result.value) = 1

(***************************************************************************)
(* Properties of the interactive session.                                  *)
(***************************************************************************)
InMain == main_pc # "none"

NoKeyConfigured ==
    /\ apollo_api_key \in {None, ""}
    /\ hunter_api_key \in {None, ""}
    /\ clado_api_key \in {None, ""}

\* The typed lines that are quit, exit or q once trimmed and lower-cased.
LeaveLines == { <<"q", "u", "i", "t">>, <<" ", "E", "x", "i", "t", " ">>, <<"q">> }

====
